---- MODULE Spec2Model ----
(***************************************************************************)
(* A model of the Renesas thermal HAL: the V2.0 service (src/Thermal.cpp)  *)
(* and the V1.1 service (src/unnamed/part_000).                            *)
(*                                                                         *)
(* Every HIDL method is a pure operator from the state it reads to the     *)
(* reply it passes to _hidl_cb; an action applies it.  The kernel pseudo   *)
(* files (/sys/class/thermal, /proc/stat, the per-core online files) are   *)
(* state that environment actions rewrite.                                 *)
(***************************************************************************)
EXTENDS Integers, Sequences, FiniteSets, TLC

VARIABLES
    callbacks_,     \* Thermal::callbacks_ (V2.0): vector<CallbackSetting>
    sThermalCb,     \* Thermal::sThermalCb (V1.1): the one stored callback
    delivered,      \* notifyThrottling calls made by the last method call
    reply,          \* what the last method call handed to _hidl_cb
    thermalRoot,    \* whether /sys/class/thermal can be opened
    thermalDir,     \* its entries, in readdir order
    procStat,       \* /proc/stat: [exists, lines]
    cpuOnline,      \* /sys/devices/system/cpu/cpu<n>/online, per core n
    recorded,       \* per sensor: the severity class at the previous poll
    changed,        \* sensors whose severity class changed at the last poll
    pc,             \* per thread: position in its register/unregister call
    call,           \* per thread: the call it makes
    local,          \* per thread: the call's locals (status, any_of result)
    mutex,          \* thermal_callback_mutex_: 0 free, else the holder
    order           \* threads in the order they took the mutex

vars == <<callbacks_, sThermalCb, delivered, reply, thermalRoot, thermalDir,
          procStat, cpuOnline, recorded, changed, pc, call, local, mutex, order>>

regVars == <<callbacks_, sThermalCb, delivered>>
fsVars == <<thermalRoot, thermalDir, procStat, cpuOnline>>
pollVars == <<recorded, changed>>
threadVars == <<pc, call, local, mutex, order>>

(***************************************************************************)
(* Bounds of the model.                                                    *)
(***************************************************************************)
NumHandles == 2
MaxZones == 2
MaxLines == 2
TickBits == 6
NumThreads == 3

nullptr == 0
Handles == 1 .. NumHandles
Callbacks == Handles \cup {nullptr}
TemperatureTypes == {"CPU", "GPU"}

SUCCESS == "SUCCESS"
FAILURE == "FAILURE"

NoReply == [op |-> "none", gen |-> "none"]

(***************************************************************************)
(* Floats: a value, or not-a-number.                                       *)
(***************************************************************************)
kThrottlingThreshold == 100
kShutdownThreshold == 120

Float(x) == [nan |-> FALSE, value |-> x]
NAN == [nan |-> TRUE, value |-> 0]

\* -FLT_MAX: below every reading and every threshold.
UNKNOWN_TEMPERATURE == Float(-2147483647)

finalizeTemperature(temperature) ==
    IF temperature = UNKNOWN_TEMPERATURE THEN NAN ELSE temperature

(***************************************************************************)
(* The callback registry of the V2.0 service.                              *)
(***************************************************************************)
interfacesEqual(a, b) == a = b

CallbackSetting(callback, filterType, type) ==
    [callback |-> callback, is_filter_type |-> filterType, type |-> type]

\* std::any_of over callbacks_ with interfacesEqual: a mutant that looks at
\* the newest registration only.
AnyRegisteredLastOnly(cbs, callback) ==
    /\ Len(cbs) > 0
    /\ interfacesEqual(cbs[Len(cbs)].callback, callback)

AnyRegistered(cbs, callback) ==
    \E i \in 1 .. Len(cbs) : interfacesEqual(cbs[i].callback, callback)

\* erase(remove_if(...)): a mutant that drops the match and all that follow.
RemoveIfTruncating(cbs, callback) ==
    LET hits == {i \in 1 .. Len(cbs) : interfacesEqual(cbs[i].callback, callback)}
    IN  IF hits = {} THEN cbs
        ELSE SubSeq(cbs, 1, (CHOOSE i \in hits : \A j \in hits : i <= j) - 1)

RemoveIf(cbs, callback) ==
    SelectSeq(cbs, LAMBDA c : ~interfacesEqual(c.callback, callback))

\* sThermalCb->notifyThrottling(false, temperature) of the V1.1 registration.
ThrottlingNotice(callback) ==
    [to |-> callback, isThrottling |-> FALSE,
     temperature |-> [type |-> "CPU", name |-> "thermal",
                      currentValue |-> finalizeTemperature(UNKNOWN_TEMPERATURE),
                      throttlingThreshold |->
                          finalizeTemperature(Float(kThrottlingThreshold)),
                      shutdownThreshold |->
                          finalizeTemperature(Float(kShutdownThreshold)),
                      vrThrottlingThreshold |->
                          finalizeTemperature(UNKNOWN_TEMPERATURE)]]

\* A mutant of the V2.0 registration that notifies the new listener as the
\* V1.1 registration does.
registerThermalChangedCallbackNotifying(cbs, callback, filterType, type) ==
    IF callback = nullptr
    THEN [callbacks_ |-> cbs, code |-> FAILURE,
          debugMessage |-> "Invalid nullptr callback", delivered |-> <<>>]
    ELSE IF AnyRegistered(cbs, callback)
    THEN [callbacks_ |-> cbs, code |-> FAILURE,
          debugMessage |-> "Same callback interface registered already",
          delivered |-> <<>>]
    ELSE [callbacks_ |-> Append(cbs, CallbackSetting(callback, filterType, type)),
          code |-> SUCCESS, debugMessage |-> "",
          delivered |-> <<ThrottlingNotice(callback)>>]

registerThermalChangedCallback(cbs, callback, filterType, type) ==
    IF callback = nullptr
    THEN [callbacks_ |-> cbs, code |-> FAILURE,
          debugMessage |-> "Invalid nullptr callback", delivered |-> <<>>]
    ELSE IF AnyRegistered(cbs, callback)
    THEN [callbacks_ |-> cbs, code |-> FAILURE,
          debugMessage |-> "Same callback interface registered already",
          delivered |-> <<>>]
    ELSE [callbacks_ |-> Append(cbs, CallbackSetting(callback, filterType, type)),
          code |-> SUCCESS, debugMessage |-> "", delivered |-> <<>>]

unregisterThermalChangedCallback(cbs, callback) ==
    IF callback = nullptr
    THEN [callbacks_ |-> cbs, code |-> FAILURE,
          debugMessage |-> "Invalid nullptr callback", delivered |-> <<>>]
    ELSE LET removed == AnyRegistered(cbs, callback)
         IN  [callbacks_ |-> RemoveIf(cbs, callback),
              code |-> IF removed THEN SUCCESS ELSE FAILURE,
              debugMessage |-> IF removed THEN ""
                               ELSE "The callback was not registered before",
              delivered |-> <<>>]

\* V1.1 registerThermalCallback: stores the callback and notifies it once.
registerThermalCallback(stored, callback) ==
    IF callback = nullptr
    THEN [sThermalCb |-> stored, delivered |-> <<>>]
    ELSE [sThermalCb |-> callback, delivered |-> <<ThrottlingNotice(callback)>>]

(***************************************************************************)
(* The cooling-device queries.                                             *)
(***************************************************************************)
getCoolingDevices_1_1_Failing ==
    [code |-> FAILURE, debugMessage |-> "No cooling devices", payload |-> <<>>]

getCoolingDevices ==
    [code |-> FAILURE, debugMessage |-> "No cooling devices", payload |-> <<>>]

getCurrentCoolingDevices(filterType, type) ==
    [code |-> FAILURE, debugMessage |-> "No cooling devices", payload |-> <<>>]

getCoolingDevices_1_1 ==
    [code |-> SUCCESS, debugMessage |-> "", payload |-> <<>>]

(***************************************************************************)
(* Initial state: the services as constructed, an empty thermal directory, *)
(* an empty /proc/stat and no per-core online file.                        *)
(***************************************************************************)
Threads == 1 .. NumThreads
Cores == {0, 1}

NoFile == [exists |-> FALSE, kind |-> "none", val |-> 0]
NoCall == [op |-> "none", callback |-> nullptr, filterType |-> FALSE, type |-> "CPU"]
NoLocal == [code |-> "unset", debugMessage |-> "", found |-> FALSE]

InitService ==
    /\ callbacks_ = <<>>
    /\ sThermalCb = nullptr
    /\ delivered = <<>>
    /\ reply = NoReply

InitFiles ==
    /\ thermalRoot = TRUE
    /\ thermalDir = <<>>
    /\ procStat = [exists |-> TRUE, lines |-> <<>>]
    /\ cpuOnline = [n \in Cores |-> NoFile]

SensorNames == {"cpu-thermal"}

InitPoll ==
    /\ recorded = [n \in SensorNames |-> "NONE"]
    /\ changed = {}

InitThreads ==
    /\ pc = [t \in Threads |-> "idle"]
    /\ call = [t \in Threads |-> NoCall]
    /\ local = [t \in Threads |-> NoLocal]
    /\ mutex = 0
    /\ order = <<>>

Init == InitService /\ InitFiles /\ InitPoll /\ InitThreads

(***************************************************************************)
(* Registry and cooling-device calls made one at a time.                   *)
(***************************************************************************)
RegisterThermalChangedCallback(callback, filterType, type) ==
    LET r == registerThermalChangedCallback(callbacks_, callback, filterType, type)
    IN  /\ callbacks_' = r.callbacks_
        /\ delivered' = r.delivered
        /\ reply' = [op |-> "registerThermalChangedCallback", gen |-> "V2_0",
                     outcome |-> "returned", code |-> r.code,
                     debugMessage |-> r.debugMessage, callback |-> callback,
                     filterType |-> filterType, type |-> type,
                     before |-> callbacks_]
        /\ UNCHANGED <<sThermalCb, fsVars, pollVars, threadVars>>

UnregisterThermalChangedCallback(callback) ==
    LET r == unregisterThermalChangedCallback(callbacks_, callback)
    IN  /\ callbacks_' = r.callbacks_
        /\ delivered' = r.delivered
        /\ reply' = [op |-> "unregisterThermalChangedCallback", gen |-> "V2_0",
                     outcome |-> "returned", code |-> r.code,
                     debugMessage |-> r.debugMessage, callback |-> callback,
                     before |-> callbacks_]
        /\ UNCHANGED <<sThermalCb, fsVars, pollVars, threadVars>>

RegisterThermalCallback(callback) ==
    LET r == registerThermalCallback(sThermalCb, callback)
    IN  /\ sThermalCb' = r.sThermalCb
        /\ delivered' = r.delivered
        /\ reply' = [op |-> "registerThermalCallback", gen |-> "V1_1",
                     outcome |-> "returned", callback |-> callback]
        /\ UNCHANGED <<callbacks_, fsVars, pollVars, threadVars>>

CoolingReply(op, gen, r) ==
    [op |-> op, gen |-> gen, outcome |-> "returned", code |-> r.code,
     debugMessage |-> r.debugMessage, payload |-> r.payload]

GetCoolingDevices ==
    /\ reply' = CoolingReply("getCoolingDevices", "V2_0", getCoolingDevices)
    /\ delivered' = <<>>
    /\ UNCHANGED <<callbacks_, sThermalCb, fsVars, pollVars, threadVars>>

GetCurrentCoolingDevices(filterType, type) ==
    /\ reply' = CoolingReply("getCurrentCoolingDevices", "V2_0",
                             getCurrentCoolingDevices(filterType, type))
    /\ delivered' = <<>>
    /\ UNCHANGED <<callbacks_, sThermalCb, fsVars, pollVars, threadVars>>

GetCoolingDevices_1_1 ==
    /\ reply' = CoolingReply("getCoolingDevices", "V1_1", getCoolingDevices_1_1)
    /\ delivered' = <<>>
    /\ UNCHANGED <<callbacks_, sThermalCb, fsVars, pollVars, threadVars>>

CoolingTypes == {"FAN", "CPU"}

NextReg ==
    \/ \E cb \in Callbacks, f \in BOOLEAN, t \in TemperatureTypes :
           RegisterThermalChangedCallback(cb, f, t)
    \/ \E cb \in Callbacks : UnregisterThermalChangedCallback(cb)
    \/ \E cb \in Callbacks : RegisterThermalCallback(cb)
    \/ GetCoolingDevices
    \/ \E f \in BOOLEAN, t \in CoolingTypes : GetCurrentCoolingDevices(f, t)
    \/ GetCoolingDevices_1_1

SpecReg == Init /\ [][NextReg]_vars

(***************************************************************************)
(* Claims about the registry and the cooling-device queries (SpecReg).     *)
(***************************************************************************)
Present(cbs, h) == \E i \in 1 .. Len(cbs) : cbs[i].callback = h
Occurrences(cbs, h) == Cardinality({i \in 1 .. Len(cbs) : cbs[i].callback = h})
IndexOf(cbs, h) == CHOOSE i \in 1 .. Len(cbs) : cbs[i].callback = h
AllBut(cbs, i) == SubSeq(cbs, 1, i - 1) \o SubSeq(cbs, i + 1, Len(cbs))

\* C1: the registry never holds two registrations of one listener handle; a
\* register call with a handle already present fails and leaves the registry
\* as it was, whatever filter settings it passes; a register call with a
\* (non-null) handle not present appends exactly that one registration and
\* succeeds.
C1_RegisterUnique ==
    /\ \A h \in Handles : Occurrences(callbacks_, h) <= 1
    /\ (reply.op = "registerThermalChangedCallback" /\ reply.callback # nullptr) =>
           IF Present(reply.before, reply.callback)
           THEN /\ reply.code = FAILURE
                /\ callbacks_ = reply.before
           ELSE /\ reply.code = SUCCESS
                /\ callbacks_ = Append(reply.before,
                                       [callback |-> reply.callback,
                                        is_filter_type |-> reply.filterType,
                                        type |-> reply.type])

\* A duplicate register call that passes other filter settings than the
\* registration it collides with, with another listener registered as well.
C1_Witness ==
    /\ reply.op = "registerThermalChangedCallback"
    /\ reply.callback # nullptr
    /\ Present(reply.before, reply.callback)
    /\ reply.before[IndexOf(reply.before, reply.callback)].is_filter_type
           # reply.filterType
    /\ Len(callbacks_) = 2
    /\ reply.code = FAILURE

IsCoolingQuery == reply.op \in {"getCoolingDevices", "getCurrentCoolingDevices"}

\* C6 as stated: every cooling-device query of either interface generation
\* returns FAILURE, "No cooling devices" and no device.
C6_AllCoolingQueriesFail ==
    IsCoolingQuery =>
        /\ reply.code = FAILURE
        /\ reply.debugMessage = "No cooling devices"
        /\ reply.payload = <<>>

\* C6 as amended: every cooling-device query returns no device; the V2.0
\* queries return FAILURE with "No cooling devices", the V1.1 query returns
\* SUCCESS with no message.
C6_CoolingQueries ==
    IsCoolingQuery =>
        /\ reply.payload = <<>>
        /\ reply.outcome = "returned"
        /\ IF reply.gen = "V2_0"
           THEN reply.code = FAILURE /\ reply.debugMessage = "No cooling devices"
           ELSE reply.code = SUCCESS /\ reply.debugMessage = ""

\* The V1.1 query answered while listeners were registered.
C6_Witness ==
    /\ reply.op = "getCoolingDevices"
    /\ reply.gen = "V1_1"
    /\ callbacks_ # <<>>

(***************************************************************************)
(* Register and unregister calls made by concurrent binder threads.  Each  *)
(* thread makes one call; a step is one statement group of the method.     *)
(***************************************************************************)
\* One listener handle per thread, so that all threads can register distinct
\* handles; the filter settings play no part in the race and are fixed.
ThreadHandles == 1 .. NumThreads

ThreadCalls ==
    {[op |-> o, callback |-> c, filterType |-> FALSE, type |-> "CPU"] :
         o \in {"register", "unregister"}, c \in ThreadHandles \cup {nullptr}}

InitConc ==
    /\ InitService /\ InitFiles /\ InitPoll
    /\ pc = [t \in Threads |-> "start"]
    /\ call \in [Threads -> ThreadCalls]
    /\ local = [t \in Threads |-> NoLocal]
    /\ mutex = 0
    /\ order = <<>>

\* std::lock_guard on thermal_callback_mutex_: a mutant that never waits.
LockNeverHeld(m) == TRUE

LockFree(m) == m = 0

\* The null check that opens both methods.
NullCheck(t) ==
    /\ pc[t] = "start"
    /\ IF call[t].callback = nullptr
       THEN /\ local' = [local EXCEPT ![t].code = FAILURE,
                                      ![t].debugMessage = "Invalid nullptr callback"]
            /\ pc' = [pc EXCEPT ![t] = "done"]
       ELSE /\ local' = [local EXCEPT ![t].code = SUCCESS]
            /\ pc' = [pc EXCEPT ![t] = "lock"]
    /\ UNCHANGED <<regVars, reply, fsVars, pollVars, call, mutex, order>>

Lock(t) ==
    /\ pc[t] = "lock"
    /\ LockFree(mutex)
    /\ mutex' = t
    /\ order' = Append(order, t)
    /\ pc' = [pc EXCEPT ![t] = IF call[t].op = "register" THEN "any_of" ELSE "erase"]
    /\ UNCHANGED <<regVars, reply, fsVars, pollVars, call, local>>

RegisterAnyOf(t) ==
    /\ pc[t] = "any_of"
    /\ local' = [local EXCEPT ![t].found = AnyRegistered(callbacks_, call[t].callback)]
    /\ pc' = [pc EXCEPT ![t] = "emplace"]
    /\ UNCHANGED <<regVars, reply, fsVars, pollVars, call, mutex, order>>

RegisterEmplace(t) ==
    /\ pc[t] = "emplace"
    /\ IF local[t].found
       THEN /\ local' = [local EXCEPT
                             ![t].code = FAILURE,
                             ![t].debugMessage = "Same callback interface registered already"]
            /\ UNCHANGED callbacks_
       ELSE /\ callbacks_' = Append(callbacks_,
                                    CallbackSetting(call[t].callback,
                                                    call[t].filterType, call[t].type))
            /\ UNCHANGED local
    /\ pc' = [pc EXCEPT ![t] = "return"]
    /\ UNCHANGED <<sThermalCb, delivered, reply, fsVars, pollVars, call, mutex, order>>

UnregisterErase(t) ==
    /\ pc[t] = "erase"
    /\ local' = [local EXCEPT ![t].found = AnyRegistered(callbacks_, call[t].callback)]
    /\ callbacks_' = RemoveIf(callbacks_, call[t].callback)
    /\ pc' = [pc EXCEPT ![t] = "removed"]
    /\ UNCHANGED <<sThermalCb, delivered, reply, fsVars, pollVars, call, mutex, order>>

UnregisterRemoved(t) ==
    /\ pc[t] = "removed"
    /\ IF local[t].found
       THEN UNCHANGED local
       ELSE local' = [local EXCEPT
                          ![t].code = FAILURE,
                          ![t].debugMessage = "The callback was not registered before"]
    /\ pc' = [pc EXCEPT ![t] = "return"]
    /\ UNCHANGED <<regVars, reply, fsVars, pollVars, call, mutex, order>>

\* _hidl_cb(status) and the lock_guard's release at return.
Return(t) ==
    /\ pc[t] = "return"
    /\ mutex' = 0
    /\ pc' = [pc EXCEPT ![t] = "done"]
    /\ UNCHANGED <<regVars, reply, fsVars, pollVars, call, local, order>>

NextConc ==
    \E t \in Threads :
        \/ NullCheck(t)
        \/ Lock(t)
        \/ RegisterAnyOf(t)
        \/ RegisterEmplace(t)
        \/ UnregisterErase(t)
        \/ UnregisterRemoved(t)
        \/ Return(t)

SpecConc == InitConc /\ [][NextConc]_vars

(***************************************************************************)
(* Claim about concurrent calls (SpecConc).                                *)
(***************************************************************************)
SequentialCall(c, cbs) ==
    IF c.op = "register"
    THEN registerThermalChangedCallback(cbs, c.callback, c.filterType, c.type)
    ELSE unregisterThermalChangedCallback(cbs, c.callback)

RECURSIVE RegistryAfter(_)
RegistryAfter(ord) ==
    IF ord = <<>> THEN <<>>
    ELSE SequentialCall(call[ord[Len(ord)]],
                        RegistryAfter(SubSeq(ord, 1, Len(ord) - 1))).callbacks_

PlaceInOrder(t) == CHOOSE i \in 1 .. Len(order) : order[i] = t

SequentialCode(t) ==
    IF call[t].callback = nullptr
    THEN FAILURE
    ELSE SequentialCall(call[t],
                        RegistryAfter(SubSeq(order, 1, PlaceInOrder(t) - 1))).code

AllDone == \A t \in Threads : pc[t] = "done"

DistinctRegisters ==
    /\ \A t \in Threads : call[t].op = "register" /\ call[t].callback # nullptr
    /\ \A t, u \in Threads : t # u => call[t].callback # call[u].callback

\* C3: concurrent register and unregister calls are linearized by the
\* mutex: whenever no call is inside its critical section the registry is
\* what the calls that took the mutex yield when made one after another in
\* that order, each finished call returned the status it has in that order,
\* no handle is registered twice, and when all calls are registers with
\* distinct non-null handles they all succeed and the registry ends holding
\* each handle once.
C3_Linearized ==
    /\ mutex = 0 => callbacks_ = RegistryAfter(order)
    /\ \A t \in Threads : pc[t] = "done" => local[t].code = SequentialCode(t)
    /\ \A h \in ThreadHandles : Occurrences(callbacks_, h) <= 1
    /\ (AllDone /\ DistinctRegisters) =>
           /\ \A t \in Threads : local[t].code = SUCCESS
           /\ Len(callbacks_) = NumThreads
           /\ \A t \in Threads : Occurrences(callbacks_, call[t].callback) = 1

\* All threads registered distinct handles, the last thread's call taking
\* the mutex first.
C3_Witness ==
    /\ AllDone
    /\ DistinctRegisters
    /\ Len(order) = NumThreads
    /\ order[1] = NumThreads
    /\ Len(callbacks_) = NumThreads

\* A register and an unregister of the same handle raced, the unregister
\* first: it failed and the handle stayed registered.
C3_WitnessMixed ==
    /\ AllDone
    /\ \E t, u \in Threads :
           /\ call[t].op = "unregister" /\ call[u].op = "register"
           /\ call[t].callback = call[u].callback
           /\ call[t].callback # nullptr
           /\ local[t].code = FAILURE
           /\ local[u].code = SUCCESS

(***************************************************************************)
(* The thermal directory and the temperature queries.                      *)
(*                                                                         *)
(* A directory entry is [prefix, idx, temp, type]: its name is prefix      *)
(* followed by idx, temp and type are its two files.  A temp file holds a  *)
(* number of millidegrees or text that is no number; a type file holds a   *)
(* word or nothing.                                                        *)
(***************************************************************************)
kThermalZone == "thermal_zone"

NoTypeFile == [exists |-> FALSE, kind |-> "none", word |-> ""]
TempFiles ==
    {NoFile,
     [exists |-> TRUE, kind |-> "garbage", val |-> 0],
     [exists |-> TRUE, kind |-> "number", val |-> 45000]}
TypeFiles ==
    {NoTypeFile,
     [exists |-> TRUE, kind |-> "empty", word |-> ""],
     [exists |-> TRUE, kind |-> "word", word |-> "cpu-thermal"]}

DirEntries ==
    {[prefix |-> kThermalZone, idx |-> i, temp |-> tf, type |-> yf] :
         i \in 0 .. MaxZones - 1, tf \in TempFiles, yf \in TypeFiles}
    \cup {[prefix |-> "cooling_device", idx |-> 0, temp |-> NoFile,
           type |-> [exists |-> TRUE, kind |-> "word", word |-> "Processor"]]}

\* filenameStr.compare(0, kThermalZone.length(), kThermalZone) == 0, and
\* !strncmp(de->d_name, THERMAL_DIR, strlen(THERMAL_DIR)).
IsThermalZone(e) == e.prefix = kThermalZone

\* std::ifstream: whether a file is open, and the failbit.
ifstreamDefault == [is_open |-> FALSE, failbit |-> FALSE]

ifstreamCtor(file) == [is_open |-> file.exists, failbit |-> ~file.exists]

\* open() fails when the stream already holds an open file or the file
\* cannot be opened, and sets failbit; on success it clears the state.
ifstreamOpen(fs, file) ==
    IF fs.is_open THEN [fs EXCEPT !.failbit = TRUE]
    ELSE IF file.exists THEN [is_open |-> TRUE, failbit |-> FALSE]
    ELSE [fs EXCEPT !.failbit = TRUE]

ifstreamClose(fs) ==
    IF fs.is_open THEN [fs EXCEPT !.is_open = FALSE]
    ELSE [fs EXCEPT !.failbit = TRUE]

\* fs >> temp: the value read, 0 when the text is no number, the old value
\* when the stream cannot be read at all.
ExtractFloat(fs, file, old) ==
    IF fs.failbit \/ ~fs.is_open THEN old
    ELSE IF file.kind = "number" THEN file.val
    ELSE 0

\* fs >> name.
ExtractWord(fs, file) ==
    IF fs.failbit \/ ~fs.is_open THEN "" ELSE file.word

\* temp / 1000.f; the temp files of the model hold whole degrees.
Celsius(millidegrees) == millidegrees \div 1000

Temperature_1_0(name, temp) ==
    [type |-> "CPU", name |-> name, currentValue |-> Float(Celsius(temp)),
     throttlingThreshold |-> finalizeTemperature(Float(kThrottlingThreshold)),
     shutdownThreshold |-> finalizeTemperature(Float(kShutdownThreshold)),
     vrThrottlingThreshold |-> finalizeTemperature(UNKNOWN_TEMPERATURE)]

\* The loop body of getTemperaturesHelper for the entries from i on; temp is
\* the float declared outside the loop.
RECURSIVE HelperLoop(_, _, _, _)
HelperLoop(dir, i, temp, temperatures) ==
    IF i > Len(dir) THEN temperatures
    ELSE LET e == dir[i]
             fs1 == ifstreamCtor(e.temp)
             fs2 == ifstreamOpen(fs1, e.temp)
             temp2 == ExtractFloat(fs2, e.temp, temp)
             fs3 == ifstreamClose(fs2)
             fs4 == ifstreamOpen(fs3, e.type)
             name == ExtractWord(fs4, e.type)
         IN  IF ~IsThermalZone(e) THEN HelperLoop(dir, i + 1, temp, temperatures)
             ELSE IF fs2.failbit THEN HelperLoop(dir, i + 1, temp, temperatures)
             ELSE IF fs4.failbit THEN HelperLoop(dir, i + 1, temp2, temperatures)
             ELSE HelperLoop(dir, i + 1, temp2,
                             Append(temperatures, Temperature_1_0(name, temp2)))

\* filesystem::directory_iterator(kTemperaturePath) throws filesystem_error
\* when the directory cannot be opened; nothing catches it.
getTemperaturesHelper(root, dir) ==
    IF ~root THEN [outcome |-> "terminated", temperatures |-> <<>>]
    ELSE [outcome |-> "returned", temperatures |-> HelperLoop(dir, 1, 0, <<>>)]

Terminated == [outcome |-> "terminated", code |-> "none", debugMessage |-> "",
               payload |-> <<>>]

Returned(code, debugMessage, payload) ==
    [outcome |-> "returned", code |-> code, debugMessage |-> debugMessage,
     payload |-> payload]

getTemperatures(root, dir) ==
    LET h == getTemperaturesHelper(root, dir)
    IN  IF h.outcome = "terminated" THEN Terminated
        ELSE IF Len(h.temperatures) = 0
        THEN Returned(FAILURE, "strerror(-ENOENT)", h.temperatures)
        ELSE Returned(SUCCESS, "", h.temperatures)

Temperature_2_0(temp) ==
    [type |-> temp.type, name |-> temp.name, value |-> temp.currentValue,
     throttlingStatus |-> "NONE"]

getCurrentTemperatures(root, dir, filterType, type) ==
    LET h == getTemperaturesHelper(root, dir)
        kept == SelectSeq(h.temperatures, LAMBDA temp : ~filterType \/ type = temp.type)
        temperatures == [i \in 1 .. Len(kept) |-> Temperature_2_0(kept[i])]
    IN  IF h.outcome = "terminated" THEN Terminated
        ELSE IF Len(temperatures) = 0
        THEN Returned(FAILURE, "strerror(-ENOENT)", temperatures)
        ELSE Returned(SUCCESS, "", temperatures)

TemperatureThreshold(name) ==
    [type |-> "CPU", name |-> name,
     hotThrottlingThresholds |->
         <<NAN, NAN, NAN, Float(kThrottlingThreshold), NAN, NAN,
           Float(kShutdownThreshold)>>,
     coldThrottlingThresholds |-> <<NAN, NAN, NAN, NAN, NAN, NAN, NAN>>,
     vrThrottlingThreshold |-> NAN]

RECURSIVE ThresholdLoop(_, _, _)
ThresholdLoop(dir, i, thresholds) ==
    IF i > Len(dir) THEN thresholds
    ELSE LET e == dir[i]
             fs == ifstreamOpen(ifstreamDefault, e.type)
         IN  IF ~IsThermalZone(e) \/ fs.failbit
             THEN ThresholdLoop(dir, i + 1, thresholds)
             ELSE ThresholdLoop(dir, i + 1,
                                Append(thresholds,
                                       TemperatureThreshold(ExtractWord(fs, e.type))))

getTemperatureThresholds(root, dir, filterType, type) ==
    IF filterType /\ type # "CPU" THEN Returned(FAILURE, "Wrong filter type", <<>>)
    ELSE IF ~root THEN Terminated
    ELSE Returned(SUCCESS, "", ThresholdLoop(dir, 1, <<>>))

\* fscanf on the null FILE* that fopen returns for a missing type file is
\* undefined: the call dies, or goes on as if nothing had been read.
UndefinedOutcomes == {"terminated", "continued"}

\* The readdir loop of the V1.1 getTemperatures for the entries from i on.
RECURSIVE ReaddirLoop(_, _, _, _)
ReaddirLoop(dir, i, temperatures, ub) ==
    IF i > Len(dir) THEN [outcome |-> "returned", temperatures |-> temperatures]
    ELSE LET e == dir[i]
         IN  IF ~IsThermalZone(e) THEN ReaddirLoop(dir, i + 1, temperatures, ub)
             ELSE IF ~e.temp.exists THEN ReaddirLoop(dir, i + 1, temperatures, ub)
             ELSE IF e.temp.kind # "number"
             THEN ReaddirLoop(dir, i + 1, temperatures, ub)
             ELSE IF ~e.type.exists
             THEN IF ub = "terminated"
                  THEN [outcome |-> "terminated", temperatures |-> <<>>]
                  ELSE ReaddirLoop(dir, i + 1, temperatures, ub)
             ELSE IF e.type.kind # "word"
             THEN ReaddirLoop(dir, i + 1, temperatures, ub)
             ELSE ReaddirLoop(dir, i + 1,
                              Append(temperatures,
                                     Temperature_1_0(e.type.word, e.temp.val)),
                              ub)

getTemperatures_1_1(root, dir, ub) ==
    IF ~root THEN Returned(FAILURE, "", <<>>)
    ELSE LET r == ReaddirLoop(dir, 1, <<>>, ub)
         IN  IF r.outcome = "terminated" THEN Terminated
             ELSE IF Len(r.temperatures) = 0
             THEN Returned(FAILURE, "strerror(-ENOENT)", r.temperatures)
             ELSE Returned(SUCCESS, "", r.temperatures)

(***************************************************************************)
(* The severity class of a sensor: the most severe hot threshold that its  *)
(* reading meets, NONE when it meets none or has no reading.  The service  *)
(* computes no such class (it reports throttlingStatus NONE); the class    *)
(* and its value at the previous poll are kept beside the service's state  *)
(* to say when a poll sees a transition.                                   *)
(***************************************************************************)
Severities ==
    <<"NONE", "LIGHT", "MODERATE", "SEVERE", "CRITICAL", "EMERGENCY", "SHUTDOWN">>

Severity(celsius) ==
    LET hot == TemperatureThreshold("").hotThrottlingThresholds
        met == {i \in 1 .. Len(hot) : ~hot[i].nan /\ celsius >= hot[i].value}
    IN  IF met = {} THEN "NONE"
        ELSE Severities[CHOOSE i \in met : \A j \in met : j <= i]

SensorSeverity(dir, name) ==
    LET zones == SelectSeq(dir, LAMBDA e : /\ e.prefix = kThermalZone
                                          /\ e.temp.kind = "number"
                                          /\ e.type.kind = "word"
                                          /\ e.type.word = name)
    IN  IF zones = <<>> THEN "NONE" ELSE Severity(Celsius(zones[1].temp.val))

Transitions(dir, last) ==
    {n \in SensorNames : SensorSeverity(dir, n) # last[n]}

(***************************************************************************)
(* The kernel rewriting the thermal directory, and the temperature calls.  *)
(* A call that terminates the service process is recorded in reply; the    *)
(* calls after it are served by the restarted service.                     *)
(***************************************************************************)
SameName(e, f) == e.prefix = f.prefix /\ e.idx = f.idx

EnvThermalRoot ==
    /\ thermalRoot' = ~thermalRoot
    /\ reply' = NoReply
    /\ delivered' = <<>>
    /\ UNCHANGED <<callbacks_, sThermalCb, thermalDir, procStat, cpuOnline,
                   pollVars, threadVars>>

EnvAddEntry(e) ==
    /\ Len(thermalDir) < MaxZones
    /\ \A i \in 1 .. Len(thermalDir) : ~SameName(thermalDir[i], e)
    /\ thermalDir' = Append(thermalDir, e)
    /\ reply' = NoReply
    /\ delivered' = <<>>
    /\ UNCHANGED <<callbacks_, sThermalCb, thermalRoot, procStat, cpuOnline,
                   pollVars, threadVars>>

EnvRemoveEntry(i) ==
    /\ i \in 1 .. Len(thermalDir)
    /\ thermalDir' = AllBut(thermalDir, i)
    /\ reply' = NoReply
    /\ delivered' = <<>>
    /\ UNCHANGED <<callbacks_, sThermalCb, thermalRoot, procStat, cpuOnline,
                   pollVars, threadVars>>

QueryReply(op, gen, r) ==
    [op |-> op, gen |-> gen, outcome |-> r.outcome, code |-> r.code,
     debugMessage |-> r.debugMessage, payload |-> r.payload]

GetTemperatures ==
    /\ reply' = QueryReply("getTemperatures", "V2_0",
                           getTemperatures(thermalRoot, thermalDir))
    /\ delivered' = <<>>
    /\ UNCHANGED <<callbacks_, sThermalCb, fsVars, pollVars, threadVars>>

GetTemperatures_1_1(ub) ==
    /\ reply' = QueryReply("getTemperatures", "V1_1",
                           getTemperatures_1_1(thermalRoot, thermalDir, ub))
    /\ delivered' = <<>>
    /\ UNCHANGED <<callbacks_, sThermalCb, fsVars, pollVars, threadVars>>

GetCurrentTemperatures(filterType, type) ==
    /\ reply' = QueryReply("getCurrentTemperatures", "V2_0",
                           getCurrentTemperatures(thermalRoot, thermalDir,
                                                  filterType, type))
    /\ delivered' = <<>>
    /\ changed' = Transitions(thermalDir, recorded)
    /\ recorded' = [n \in SensorNames |-> SensorSeverity(thermalDir, n)]
    /\ UNCHANGED <<callbacks_, sThermalCb, fsVars, threadVars>>

GetTemperatureThresholds(filterType, type) ==
    /\ reply' = QueryReply("getTemperatureThresholds", "V2_0",
                           getTemperatureThresholds(thermalRoot, thermalDir,
                                                    filterType, type))
    /\ delivered' = <<>>
    /\ UNCHANGED <<callbacks_, sThermalCb, fsVars, pollVars, threadVars>>

NextTemp ==
    \/ EnvThermalRoot
    \/ \E e \in DirEntries : EnvAddEntry(e)
    \/ \E i \in 1 .. MaxZones : EnvRemoveEntry(i)
    \/ GetTemperatures
    \/ \E ub \in UndefinedOutcomes : GetTemperatures_1_1(ub)
    \/ \E f \in BOOLEAN, t \in TemperatureTypes : GetCurrentTemperatures(f, t)
    \/ \E f \in BOOLEAN, t \in TemperatureTypes : GetTemperatureThresholds(f, t)

SpecTemp == Init /\ [][NextTemp]_vars

(***************************************************************************)
(* Claims about the temperature queries (SpecTemp).                        *)
(***************************************************************************)
\* An entry named thermal_zone* whose temp file holds a number and whose
\* type file holds a word.
Readable(e) ==
    /\ e.prefix = "thermal_zone"
    /\ e.temp.exists /\ e.temp.kind = "number"
    /\ e.type.exists /\ e.type.kind = "word"

ReadableEntries(dir) == SelectSeq(dir, Readable)

IsGetTemperatures == reply.op = "getTemperatures"

\* C4 as stated, for the calls that return: in every state of the thermal
\* directory get_temperatures (V2.0 and V1.1) returns exactly one sample for
\* each readable thermal_zone* entry, in directory order, and none for the
\* others, so never more samples than directory entries.
C4_OneSamplePerReadableEntry ==
    (IsGetTemperatures /\ thermalRoot /\ reply.outcome = "returned") =>
        /\ Len(reply.payload) = Len(ReadableEntries(thermalDir))
        /\ \A i \in 1 .. Len(reply.payload) :
               reply.payload[i].name = ReadableEntries(thermalDir)[i].type.word
        /\ Len(reply.payload) <= Len(thermalDir)

\* C5 as stated: with no readable thermal_zone* entry get_temperatures
\* returns FAILURE and no sample, and the status of a returned call is
\* FAILURE exactly when it carries no sample.
C5_FailureIffEmpty ==
    (IsGetTemperatures /\ thermalRoot) =>
        /\ ReadableEntries(thermalDir) = <<>> =>
               /\ reply.outcome = "returned"
               /\ reply.code = FAILURE
               /\ reply.payload = <<>>
        /\ reply.outcome = "returned" =>
               (reply.code = FAILURE <=> reply.payload = <<>>)

IsTemperatureQuery ==
    reply.op \in {"getTemperatures", "getCurrentTemperatures",
                  "getTemperatureThresholds"}

\* C8 as stated: with the thermal root directory missing, every temperature
\* query returns to its caller with FAILURE and an empty payload.
C8_MissingRootReturnsFailure ==
    (IsTemperatureQuery /\ ~thermalRoot) =>
        /\ reply.outcome = "returned"
        /\ reply.code = FAILURE
        /\ reply.payload = <<>>

(***************************************************************************)
(* /proc/stat, the per-core online files and the CPU usage queries.        *)
(*                                                                         *)
(* A line of /proc/stat is [cpu, num, fields]: cpu says that it starts     *)
(* with "cpu" and a digit, num is the core number that follows, fields are *)
(* the numbers after it, each after one space.  An online file holds an    *)
(* integer, text that is no integer, or nothing.                           *)
(***************************************************************************)
\* uint64_t arithmetic, at the width of the model's tick counters.
TickModulus == 2 ^ TickBits
Wrap(x) == x % TickModulus

OtherLine == [cpu |-> FALSE, num |-> 0, fields |-> <<>>]
FieldSeqs == {<<1, 2, 3>>, <<1, 2, 3, 4>>, <<3, 0, 1, 2, 9>>}
StatLines ==
    {OtherLine} \cup {[cpu |-> TRUE, num |-> n, fields |-> fl] :
                          n \in Cores, fl \in FieldSeqs}

OnlineFiles ==
    {NoFile,
     [exists |-> TRUE, kind |-> "empty", val |-> 0],
     [exists |-> TRUE, kind |-> "garbage", val |-> 0],
     [exists |-> TRUE, kind |-> "number", val |-> 0],
     [exists |-> TRUE, kind |-> "number", val |-> 1]}

\* std::regex_search(tmp, sm, txt_regex) with
\* "cpu([0-9]+)( [0-9]+)( [0-9]+)( [0-9]+)( [0-9]+)(.*)".
RegexSearch(line) == line.cpu /\ Len(line.fields) >= 4

\* cpuOnlineFs >> isOnline: a mutant that stores 0 when the stream has
\* failed, as a failed conversion does.
ExtractOnlineStoring(fs, file, isOnline) ==
    IF fs.failbit THEN 0
    ELSE IF file.kind = "empty" THEN isOnline
    ELSE IF file.kind = "number" THEN file.val
    ELSE 0

\* cpuOnlineFs >> isOnline: nothing is stored when the stream has failed or
\* ends before any text; 0 is stored when the text is no integer.
ExtractOnline(fs, file, isOnline) ==
    IF fs.failbit THEN isOnline
    ELSE IF file.kind = "empty" THEN isOnline
    ELSE IF file.kind = "number" THEN file.val
    ELSE 0

CpuUsage(name, active, total, isOnline) ==
    [name |-> name, active |-> active, total |-> total, isOnline |-> isOnline # 0]

\* The getline loop of the V2.0 getCpuUsages for the lines from i on;
\* isOnline is the int declared outside the loop.
RECURSIVE GetlineLoop(_, _, _, _, _)
GetlineLoop(lines, online, i, isOnline, cpuUsages) ==
    IF i > Len(lines) THEN cpuUsages
    ELSE IF ~RegexSearch(lines[i])
    THEN GetlineLoop(lines, online, i + 1, isOnline, cpuUsages)
    ELSE LET cpuNum == lines[i].num
             user == lines[i].fields[1]
             nice == lines[i].fields[2]
             system == lines[i].fields[3]
             idle == lines[i].fields[4]
             active == Wrap(user + nice + system)
             total == Wrap(active + idle)
             cpuOnlineFs == ifstreamCtor(online[cpuNum])
             isOnline1 == IF cpuOnlineFs.failbit
                          THEN (IF cpuNum = 0 THEN 1 ELSE 0)
                          ELSE isOnline
             isOnline2 == ExtractOnline(cpuOnlineFs, online[cpuNum], isOnline1)
         IN  GetlineLoop(lines, online, i + 1, isOnline2,
                         Append(cpuUsages, CpuUsage(cpuNum, active, total, isOnline2)))

getCpuUsages(stat, online) ==
    IF ~stat.exists THEN Returned(FAILURE, "", <<>>)
    ELSE Returned(SUCCESS, "", GetlineLoop(stat.lines, online, 1, 0, <<>>))

\* sscanf(line, "cpu%d %llu %llu %llu %llu", ...): the number of items stored.
SscanfLine(line) ==
    IF Len(line.fields) >= 4 THEN 5 ELSE 1 + Len(line.fields)

\* fscanf(cpu_file, "%d", &online): a mutant that stores 0 and reports one
\* item when the file holds no integer.
FscanfOnlineDefaulting(file) ==
    IF file.kind = "number" THEN [items |-> 1, online |-> file.val]
    ELSE [items |-> 1, online |-> 0]

FscanfOnline(file) ==
    IF file.kind = "number" THEN [items |-> 1, online |-> file.val]
    ELSE [items |-> 0, online |-> 0]

\* snprintf(cpu_name, sizeof(cpu_name), "CPU%d", cpu_num): char cpu_name[5]
\* keeps "CPU" and the first digit.
RECURSIVE FirstDigit(_)
FirstDigit(n) == IF n < 10 THEN n ELSE FirstDigit(n \div 10)

\* The getline loop of the V1.1 getCpuUsages for the lines from i on.
RECURSIVE GetlineLoop_1_1(_, _, _, _)
GetlineLoop_1_1(lines, online, i, cpuUsages) ==
    IF i > Len(lines) THEN Returned(SUCCESS, "", cpuUsages)
    ELSE IF ~lines[i].cpu
    THEN GetlineLoop_1_1(lines, online, i + 1, cpuUsages)
    ELSE IF SscanfLine(lines[i]) # 5
    THEN Returned(FAILURE, "strerror(-EIO)", cpuUsages)
    ELSE LET cpu_num == lines[i].num
             user == lines[i].fields[1]
             nice == lines[i].fields[2]
             system == lines[i].fields[3]
             idle == lines[i].fields[4]
             active == Wrap(user + nice + system)
             total == Wrap(active + idle)
             cpu_file == online[cpu_num]
             read == FscanfOnline(cpu_file)
         IN  IF ~cpu_file.exists
             THEN GetlineLoop_1_1(lines, online, i + 1,
                                  Append(cpuUsages,
                                         CpuUsage(FirstDigit(cpu_num), active, total,
                                                  IF cpu_num = 0 THEN 1 ELSE 0)))
             ELSE IF read.items # 1
             THEN Returned(FAILURE, "strerror(-EIO)", cpuUsages)
             ELSE GetlineLoop_1_1(lines, online, i + 1,
                                  Append(cpuUsages,
                                         CpuUsage(FirstDigit(cpu_num), active, total,
                                                  read.online)))

getCpuUsages_1_1(stat, online) ==
    IF ~stat.exists THEN Returned(SUCCESS, "", <<>>)
    ELSE GetlineLoop_1_1(stat.lines, online, 1, <<>>)

EnvProcStatExists ==
    /\ procStat' = [procStat EXCEPT !.exists = ~procStat.exists]
    /\ reply' = NoReply
    /\ delivered' = <<>>
    /\ UNCHANGED <<callbacks_, sThermalCb, thermalRoot, thermalDir, cpuOnline,
                   pollVars, threadVars>>

EnvAppendLine(line) ==
    /\ Len(procStat.lines) < MaxLines
    /\ procStat' = [procStat EXCEPT !.lines = Append(procStat.lines, line)]
    /\ reply' = NoReply
    /\ delivered' = <<>>
    /\ UNCHANGED <<callbacks_, sThermalCb, thermalRoot, thermalDir, cpuOnline,
                   pollVars, threadVars>>

EnvClearLines ==
    /\ procStat.lines # <<>>
    /\ procStat' = [procStat EXCEPT !.lines = <<>>]
    /\ reply' = NoReply
    /\ delivered' = <<>>
    /\ UNCHANGED <<callbacks_, sThermalCb, thermalRoot, thermalDir, cpuOnline,
                   pollVars, threadVars>>

EnvCpuOnline(n, file) ==
    /\ cpuOnline' = [cpuOnline EXCEPT ![n] = file]
    /\ reply' = NoReply
    /\ delivered' = <<>>
    /\ UNCHANGED <<callbacks_, sThermalCb, thermalRoot, thermalDir, procStat,
                   pollVars, threadVars>>

GetCpuUsages ==
    /\ reply' = QueryReply("getCpuUsages", "V2_0", getCpuUsages(procStat, cpuOnline))
    /\ delivered' = <<>>
    /\ UNCHANGED <<callbacks_, sThermalCb, fsVars, pollVars, threadVars>>

GetCpuUsages_1_1 ==
    /\ reply' = QueryReply("getCpuUsages", "V1_1",
                           getCpuUsages_1_1(procStat, cpuOnline))
    /\ delivered' = <<>>
    /\ UNCHANGED <<callbacks_, sThermalCb, fsVars, pollVars, threadVars>>

NextCpu ==
    \/ EnvProcStatExists
    \/ \E line \in StatLines : EnvAppendLine(line)
    \/ EnvClearLines
    \/ \E n \in Cores, file \in OnlineFiles : EnvCpuOnline(n, file)
    \/ GetCpuUsages
    \/ GetCpuUsages_1_1

SpecCpu == Init /\ [][NextCpu]_vars

(***************************************************************************)
(* Claims about the CPU usage queries (SpecCpu).                           *)
(***************************************************************************)
IsGetCpuUsages == reply.op = "getCpuUsages"

\* C7 as stated: when /proc/stat cannot be opened get_cpu_usages (V2.0 and
\* V1.1) returns FAILURE and no sample; when it can be opened it returns
\* SUCCESS.
C7_FailureIffStatUnopenable ==
    IsGetCpuUsages =>
        /\ reply.outcome = "returned"
        /\ IF procStat.exists
           THEN reply.code = SUCCESS
           ELSE reply.code = FAILURE /\ reply.payload = <<>>

\* A per-core line with the core number and four counters.
WellFormed(line) == line.cpu /\ Len(line.fields) >= 4

\* An entry the claim calls malformed: a line that starts like a per-core
\* line without four counters, or a per-core line whose online file exists
\* and holds no integer.
Malformed(line) ==
    /\ line.cpu
    /\ \/ Len(line.fields) < 4
       \/ cpuOnline[line.num].exists /\ cpuOnline[line.num].kind # "number"

CoresOf(lines) == [i \in 1 .. Len(lines) |-> lines[i].num]
NamesOf(usages) == [i \in 1 .. Len(usages) |-> usages[i].name]

BeforeFirstMalformed(lines) ==
    IF \E i \in 1 .. Len(lines) : Malformed(lines[i])
    THEN SubSeq(lines, 1,
                (CHOOSE i \in 1 .. Len(lines) :
                     /\ Malformed(lines[i])
                     /\ \A j \in 1 .. i - 1 : ~Malformed(lines[j])) - 1)
    ELSE lines

C11_OnlineLookup ==
    (IsGetCpuUsages /\ reply.outcome = "returned") =>
        LET matched == SelectSeq(procStat.lines, WellFormed)
        IN  /\ Len(reply.payload) <= Len(matched)
            /\ \A k \in 1 .. Len(reply.payload) :
                   LET cpuNum == matched[k].num
                       file == cpuOnline[cpuNum]
                   IN  /\ ~file.exists =>
                              reply.payload[k].isOnline = (cpuNum = 0)
                       /\ (file.exists /\ file.kind = "number") =>
                              reply.payload[k].isOnline = (file.val # 0)

\* A V2.0 call over the line of core 0 followed by the line of core 1, both
\* online files absent, returned core 0 online and then core 1 offline.
C11_Witness ==
    /\ IsGetCpuUsages
    /\ reply.gen = "V2_0"
    /\ reply.outcome = "returned"
    /\ Len(procStat.lines) = 2
    /\ WellFormed(procStat.lines[1]) /\ procStat.lines[1].num = 0
    /\ WellFormed(procStat.lines[2]) /\ procStat.lines[2].num = 1
    /\ ~cpuOnline[0].exists /\ ~cpuOnline[1].exists
    /\ Len(reply.payload) = 2
    /\ reply.payload[1].isOnline
    /\ ~reply.payload[2].isOnline

(***************************************************************************)
(* /proc/stat lines whose counters are small or the largest value an       *)
(* unsigned counter holds (SpecTicks).                                     *)
(***************************************************************************)
TickValues == {1, TickModulus - 1}

TickLines ==
    {[cpu |-> TRUE, num |-> n, fields |-> <<user, nice, system, idle>>] :
         n \in Cores, user \in TickValues, nice \in TickValues,
         system \in TickValues, idle \in TickValues}

NextTicks ==
    \/ \E line \in TickLines : EnvAppendLine(line)
    \/ EnvClearLines
    \/ GetCpuUsages
    \/ GetCpuUsages_1_1

SpecTicks == Init /\ [][NextTicks]_vars

\* C12 as stated: every sample get_cpu_usages (V2.0 and V1.1) returns has
\* active_ticks = user + nice + system and total_ticks = active_ticks + idle
\* in arithmetic modulo the counter width, and total_ticks >= active_ticks,
\* for all counter values a line can hold.
C12_TotalAtLeastActive ==
    (IsGetCpuUsages /\ reply.outcome = "returned") =>
        LET matched == SelectSeq(procStat.lines, WellFormed)
        IN  /\ Len(reply.payload) <= Len(matched)
            /\ \A k \in 1 .. Len(reply.payload) :
                   LET fields == matched[k].fields
                       usage == reply.payload[k]
                   IN  /\ usage.active = Wrap(fields[1] + fields[2] + fields[3])
                       /\ usage.total = Wrap(usage.active + fields[4])
                       /\ usage.total >= usage.active

(***************************************************************************)
(* Polls, registrations and a sensor whose reading moves (SpecNotify).     *)
(***************************************************************************)
TempReadings == {45000, 110000}

EnvSetTemp(i, v) ==
    /\ i \in 1 .. Len(thermalDir)
    /\ thermalDir[i].temp.kind = "number"
    /\ thermalDir[i].temp.val # v
    /\ thermalDir' = [thermalDir EXCEPT ![i].temp.val = v]
    /\ reply' = NoReply
    /\ delivered' = <<>>
    /\ UNCHANGED <<callbacks_, sThermalCb, thermalRoot, procStat, cpuOnline,
                   pollVars, threadVars>>

InitNotify ==
    /\ InitService /\ InitPoll /\ InitThreads
    /\ thermalRoot = TRUE
    /\ thermalDir = <<[prefix |-> kThermalZone, idx |-> 0,
                       temp |-> [exists |-> TRUE, kind |-> "number", val |-> 45000],
                       type |-> [exists |-> TRUE, kind |-> "word",
                                 word |-> "cpu-thermal"]]>>
    /\ procStat = [exists |-> TRUE, lines |-> <<>>]
    /\ cpuOnline = [n \in Cores |-> NoFile]

NextNotify ==
    \/ \E cb \in Callbacks, f \in BOOLEAN, t \in TemperatureTypes :
           RegisterThermalChangedCallback(cb, f, t)
    \/ \E cb \in Callbacks : UnregisterThermalChangedCallback(cb)
    \/ \E cb \in Callbacks : RegisterThermalCallback(cb)
    \/ \E v \in TempReadings : EnvSetTemp(1, v)
    \/ \E f \in BOOLEAN, t \in TemperatureTypes : GetCurrentTemperatures(f, t)

SpecNotify == InitNotify /\ [][NextNotify]_vars

\* The registrations a notification about a sensor of the given type goes to.
Matching(cbs, sensorType) ==
    SelectSeq(cbs, LAMBDA c : ~c.is_filter_type \/ c.type = sensorType)

NoticesTo(h) == {i \in 1 .. Len(delivered) : delivered[i].to = h}

====
